---- MODULE Spec2Model ----
(***************************************************************************)
(* A model of the myshoes orchestration core as far as the repository      *)
(* holds it: the in-memory datastore (package memory), the relational      *)
(* target statements (package mysql), the pending-run sweep (package       *)
(* datastore) and the in-memory metric scraper (package metric).  The      *)
(* Starter and the Runner Manager, whose gauges the scraper exports, are   *)
(* not part of these files; their loops follow sections 4.C and 4.D of     *)
(* the specification and are marked as such, and so is the re-enqueue of   *)
(* the Recoverer (4.E) that consumes the scan of package datastore.        *)
(***************************************************************************)
EXTENDS Integers, Sequences, FiniteSets, TLC

VARIABLES
    targets,             \* Memory.targets : uuid -> datastore.Target
    jobs,                \* Memory.jobs    : uuid -> datastore.Job
    runners,             \* Memory.runners : uuid -> datastore.Runner
    mysqlTargets,        \* rows of the relational table `targets`, by uuid
    ret,                 \* the last datastore call: its arguments and result
    deletedIDs,          \* history: runner ids DeleteRunner removed a row for
    pc,                  \* Starter replica -> "idle" | "dispatch"
    snapshot,            \* Starter replica -> jobs of this tick still to visit
    worker,              \* Starter replica -> job id -> phase of its worker
    CountRunning,        \* starter.CountRunning, one per replica (process)
    CountWaiting,        \* starter.CountWaiting, one per replica (process)
    lockErr,             \* Starter replica -> result of its last GetLock
    created,             \* history: replica -> job id -> CreateRunner calls
    nextJob,             \* number of jobs enqueued so far
    rmPc,                \* Runner Manager: "idle" | "dispatch"
    rmSnapshot,          \* Runner Manager: runners of this tick still to visit
    deleter,             \* runner id -> phase of its decommission worker
    ConcurrencyDeleting, \* runner.ConcurrencyDeleting
    gauge,               \* the metrics of the last scrape
    runs,                \* the workflow runs the CI service lists for a repo
    sweepNow,            \* time.Now() of the sweep, in seconds
    sweep,               \* the result of the last getPendingRunByRepo
    runnerLog,           \* the runner audit log of the datastore
    ciRuns,              \* repository -> the workflow runs the CI service lists
    recovered,           \* the last scan of the recent repositories
    passes,              \* number of Recoverer passes so far
    mu,                  \* Memory.mu: its writer and its readers
    goroutine            \* concurrent callers of Memory: position and locals

vars == <<targets, jobs, runners, mysqlTargets, ret, deletedIDs, pc, snapshot,
          worker, CountRunning, CountWaiting, lockErr, created, nextJob, rmPc,
          rmSnapshot, deleter, ConcurrencyDeleting, gauge, runs, sweepNow,
          sweep, runnerLog, ciRuns, recovered, passes, mu, goroutine>>

storeVars == <<targets, jobs, runners, mysqlTargets, ret, deletedIDs>>
starterVars == <<pc, snapshot, worker, CountRunning, CountWaiting, lockErr,
                 created, nextJob>>
managerVars == <<rmPc, rmSnapshot, deleter, ConcurrencyDeleting>>
sweepVars == <<runs, sweepNow, sweep>>
recoverVars == <<runnerLog, ciRuns, recovered, passes>>
rowVars == <<mu, goroutine>>

----------------------------------------------------------------------------
(* Values *)

Nil == "nil"
ErrNotFound == "datastore.ErrNotFound"
ErrUpdate == "not found"
ErrInsert == "failed to execute INSERT query"
IsNotLocked == "is not locked"

EmptyMap == [x \in {} |-> x]

MapPut(m, k, v) == [x \in DOMAIN m \cup {k} |-> IF x = k THEN v ELSE m[x]]

MapDelete(m, k) == [x \in DOMAIN m \ {k} |-> m[x]]

MapValues(m) == {m[k] : k \in DOMAIN m}

TargetIDs == {"t1", "t2"}
Scopes == {"acme", "acme/widget"}
GHEDomains == {"", "ghe.example"}
RunnerIDs == {"r1", "r2"}
StoreJobIDs == {"j1", "j2"}
MaxJobs == 1
JobIDs == 1..MaxJobs
MaxBurst == 2
BurstIDs == 1..MaxBurst
Reasons == {"completed", "reach_hard_limit"}
MaxTime == 2
Times == 1..MaxTime

NullString(s, valid) == [String |-> s, Valid |-> valid]

Target(id, scope, domain) ==
    [UUID |-> id, Scope |-> scope, GHEDomain |-> domain, Status |-> "active",
     StatusDescription |-> NullString("", FALSE), GitHubToken |-> "",
     TokenExpiredAt |-> 0, ResourceType |-> "nano",
     ProviderURL |-> NullString("", FALSE)]

Job(id, targetID) == [UUID |-> id, TargetID |-> targetID]

Runner(id, targetID, createdAt) ==
    [UUID |-> id, TargetID |-> targetID, Status |-> "created",
     CreatedAt |-> createdAt, DeletedAt |-> 0]

NoCall == [op |-> "", id |-> "", scope |-> "", domain |-> "", at |-> 0,
           reason |-> "", err |-> Nil, rows |-> {}, pre |-> {}]

RowAt(m, id) == IF id \in DOMAIN m THEN {m[id]} ELSE {}

----------------------------------------------------------------------------
(* package memory: the operations on the three maps.  Every operation      *)
(* runs under Memory.mu, so each is one atomic step.                       *)

MemoryCreateTarget(ts, target) ==
    [err |-> Nil, targets |-> MapPut(ts, target.UUID, target)]

MemoryGetTarget(ts, id) ==
    IF id \in DOMAIN ts THEN [err |-> Nil, rows |-> {ts[id]}]
    ELSE [err |-> ErrNotFound, rows |-> {}]

\* The range over the map visits the targets in no fixed order: any target
\* of the scope may be the one returned.  There is no CI-domain parameter.
MemoryGetTargetByScope(ts, scope) ==
    LET found == {t \in MapValues(ts) : t.Scope = scope}
    IN  IF found = {} THEN {[err |-> ErrNotFound, rows |-> {}]}
        ELSE {[err |-> Nil, rows |-> {t}] : t \in found}

MemoryListTargets(ts) == [err |-> Nil, rows |-> MapValues(ts)]

MemoryDeleteTarget(ts, id) == [err |-> Nil, targets |-> MapDelete(ts, id)]

MemoryUpdateTargetStatus(ts, targetID, newStatus, description) ==
    IF targetID \notin DOMAIN ts THEN [err |-> ErrUpdate, targets |-> ts]
    ELSE [err |-> Nil,
          targets |-> [ts EXCEPT ![targetID] =
              [@ EXCEPT !.Status = newStatus,
                        !.StatusDescription =
                            NullString(description, description # "")]]]

\* A target that is not in the map is created with the token.
MemoryUpdateTokenUpserts(ts, targetID, newToken, newExpiredAt) ==
    [err |-> Nil,
     targets |-> MapPut(ts, targetID,
         [(IF targetID \in DOMAIN ts THEN ts[targetID]
           ELSE Target(targetID, "", ""))
              EXCEPT !.GitHubToken = newToken,
                     !.TokenExpiredAt = newExpiredAt])]

MemoryUpdateToken(ts, targetID, newToken, newExpiredAt) ==
    IF targetID \notin DOMAIN ts THEN [err |-> ErrUpdate, targets |-> ts]
    ELSE [err |-> Nil,
          targets |-> [ts EXCEPT ![targetID] =
              [@ EXCEPT !.GitHubToken = newToken,
                        !.TokenExpiredAt = newExpiredAt]]]

\* The update of the parameters puts the target back to active as well.
MemoryUpdateTargetParamActivates(ts, targetID, newResourceType, newProviderURL) ==
    IF targetID \notin DOMAIN ts THEN [err |-> ErrUpdate, targets |-> ts]
    ELSE [err |-> Nil,
          targets |-> [ts EXCEPT ![targetID] =
              [@ EXCEPT !.Status = "active",
                        !.ResourceType = newResourceType,
                        !.ProviderURL = NullString(newProviderURL, TRUE)]]]

MemoryUpdateTargetParam(ts, targetID, newResourceType, newProviderURL) ==
    IF targetID \notin DOMAIN ts THEN [err |-> ErrUpdate, targets |-> ts]
    ELSE [err |-> Nil,
          targets |-> [ts EXCEPT ![targetID] =
              [@ EXCEPT !.ResourceType = newResourceType,
                        !.ProviderURL = NullString(newProviderURL, TRUE)]]]

MemoryEnqueueJob(js, job) == [err |-> Nil, jobs |-> MapPut(js, job.UUID, job)]

\* The sequences that hold every element of S once: the orders in which a
\* range over a Go map may visit its entries.
Orders(S) ==
    {q \in [1..Cardinality(S) -> S] :
        \A i, k \in 1..Cardinality(S) : i # k => q[i] # q[k]}

\* The jobs are appended in the map's iteration order, which is not fixed.
MemoryListJobs(js) == {[err |-> Nil, rows |-> q] : q \in Orders(MapValues(js))}

\* A job that is not in the map is reported as an error.
MemoryDeleteJobNotFound(js, id) ==
    IF id \in DOMAIN js THEN [err |-> Nil, jobs |-> MapDelete(js, id)]
    ELSE [err |-> ErrNotFound, jobs |-> js]

MemoryDeleteJob(js, id) == [err |-> Nil, jobs |-> MapDelete(js, id)]

\* The row is written to nothing: the map is left as it was.
MemoryCreateRunnerLosesRow(rs, runner) == [err |-> Nil, runners |-> rs]

MemoryCreateRunner(rs, runner) ==
    [err |-> Nil, runners |-> MapPut(rs, runner.UUID, runner)]

MemoryListRunners(rs) == [err |-> Nil, rows |-> MapValues(rs)]

MemoryListRunnersByTargetID(rs, targetID) ==
    [err |-> Nil, rows |-> {r \in MapValues(rs) : r.TargetID = targetID}]

MemoryListRunnersLogByUntil(rs, until) ==
    [err |-> Nil, rows |-> {r \in MapValues(rs) : r.CreatedAt < until}]

MemoryGetRunner(rs, id) ==
    IF id \in DOMAIN rs THEN [err |-> Nil, rows |-> {rs[id]}]
    ELSE [err |-> ErrNotFound, rows |-> {}]

\* deletedAt and reason are accepted and not used: the row is removed.
MemoryDeleteRunner(rs, id, deletedAt, reason) ==
    [err |-> Nil, runners |-> MapDelete(rs, id)]

\* The lock is reported as not acquired.
MemoryGetLockFails == "failed to get lock"

MemoryGetLock == Nil

\* The lock is reported as held.
MemoryIsLockedHeld == [status |-> "is locked", err |-> Nil]

MemoryIsLocked == [status |-> IsNotLocked, err |-> Nil]

----------------------------------------------------------------------------
(* package mysql: the statements on the table `targets`.  The table is     *)
(* held by uuid, the column every statement addresses a row by; an INSERT  *)
(* of a uuid already present fails.  No other constraint of the schema is  *)
(* part of these files.                                                    *)

MySQLCreateTarget(tbl, target) ==
    IF target.UUID \in DOMAIN tbl THEN [err |-> ErrInsert, targets |-> tbl]
    ELSE [err |-> Nil, targets |-> MapPut(tbl, target.UUID, target)]

MySQLGetTarget(tbl, id) ==
    IF id \in DOMAIN tbl THEN [err |-> Nil, rows |-> {tbl[id]}]
    ELSE [err |-> ErrNotFound, rows |-> {}]

\* WHERE scope = "<scope>", and AND ghe_domain = "<gheDomain>" only when
\* gheDomain is not empty.  GetContext scans the first row of the result,
\* which has no ORDER BY: any matching row may be the one returned.
MySQLGetTargetByScope(tbl, gheDomain, scope) ==
    LET found == {t \in MapValues(tbl) :
                     /\ t.Scope = scope
                     /\ (gheDomain # "" => t.GHEDomain = gheDomain)}
    IN  IF found = {} THEN {[err |-> ErrNotFound, rows |-> {}]}
        ELSE {[err |-> Nil, rows |-> {t}] : t \in found}

MySQLDeleteTarget(tbl, id) == [err |-> Nil, targets |-> MapDelete(tbl, id)]

----------------------------------------------------------------------------
(* The initial state: memory.New() and an empty table; no loop has run.    *)

Replicas == {"s1", "s2"}
Single == {"s1"}

InitStore ==
    /\ targets = EmptyMap
    /\ jobs = EmptyMap
    /\ runners = EmptyMap
    /\ mysqlTargets = EmptyMap
    /\ ret = NoCall
    /\ deletedIDs = {}

NoWorker == [phase |-> "none", TargetID |-> ""]

\* The Starter processes reps, before any of them has run a tick; ids are
\* the ids the webhook will give its jobs.
InitStarter(reps, ids) ==
    /\ pc = [r \in reps |-> "idle"]
    /\ snapshot = [r \in reps |-> <<>>]
    /\ worker = [r \in reps |-> [j \in ids |-> NoWorker]]
    /\ CountRunning = [r \in reps |-> 0]
    /\ CountWaiting = [r \in reps |-> 0]
    /\ lockErr = [r \in reps |-> "none"]
    /\ created = [r \in reps |-> [j \in ids |-> 0]]
    /\ nextJob = 0

NoDeleter == [phase |-> "none", reason |-> ""]

InitManager ==
    /\ rmPc = "idle"
    /\ rmSnapshot = <<>>
    /\ deleter = [id \in RunnerIDs |-> NoDeleter]
    /\ ConcurrencyDeleting = 0

NoGauge == [scraped |-> FALSE, replica |-> "", starter_max_running |-> 0,
            starter_queue_running |-> 0, starter_queue_waiting |-> 0,
            runner_max_concurrency_deleting |-> 0,
            runner_queue_concurrency_deleting |-> 0]

NoSweep == [called |-> FALSE, err |-> Nil, pendingRuns |-> <<>>]

InitSweepIdle ==
    /\ runs = <<>>
    /\ sweepNow = 0
    /\ sweep = NoSweep

NoScan == [called |-> FALSE, dbErr |-> Nil, err |-> Nil, recent |-> <<>>,
           pendingRuns |-> <<>>, skipped |-> {}]

InitRecoverIdle ==
    /\ runnerLog = {}
    /\ ciRuns = EmptyMap
    /\ recovered = NoScan
    /\ passes = 0

Unlocked == [writer |-> "", readers |-> {}]

InitRowIdle ==
    /\ mu = Unlocked
    /\ goroutine = EmptyMap

Init ==
    /\ InitStore
    /\ InitStarter(Replicas, JobIDs)
    /\ InitManager
    /\ gauge = NoGauge
    /\ InitSweepIdle
    /\ InitRecoverIdle
    /\ InitRowIdle

----------------------------------------------------------------------------
(* Calls on the datastore, one action per call.  ret records the call: its *)
(* arguments, its error, the rows it returned and, for a call that        *)
(* addresses one row, that row as it was before the call (pre).            *)

CreateTarget(id, scope, domain) ==
    LET r == MemoryCreateTarget(targets, Target(id, scope, domain))
    IN  /\ targets' = r.targets
        /\ ret' = [NoCall EXCEPT !.op = "CreateTarget", !.id = id,
                                 !.scope = scope, !.domain = domain,
                                 !.err = r.err, !.pre = RowAt(targets, id)]
        /\ UNCHANGED <<jobs, runners, mysqlTargets, deletedIDs>>
        /\ UNCHANGED <<starterVars, managerVars, gauge, sweepVars, recoverVars, rowVars>>

DeleteTarget(id) ==
    LET r == MemoryDeleteTarget(targets, id)
    IN  /\ targets' = r.targets
        /\ ret' = [NoCall EXCEPT !.op = "DeleteTarget", !.id = id,
                                 !.err = r.err, !.pre = RowAt(targets, id)]
        /\ UNCHANGED <<jobs, runners, mysqlTargets, deletedIDs>>
        /\ UNCHANGED <<starterVars, managerVars, gauge, sweepVars, recoverVars, rowVars>>

GetTargetByScope(scope, domain) ==
    \E r \in MemoryGetTargetByScope(targets, scope) :
        /\ ret' = [NoCall EXCEPT !.op = "GetTargetByScope", !.scope = scope,
                                 !.domain = domain, !.err = r.err,
                                 !.rows = r.rows]
        /\ UNCHANGED <<targets, jobs, runners, mysqlTargets, deletedIDs>>
        /\ UNCHANGED <<starterVars, managerVars, gauge, sweepVars, recoverVars, rowVars>>

EnqueueJob(id, targetID) ==
    LET r == MemoryEnqueueJob(jobs, Job(id, targetID))
    IN  /\ jobs' = r.jobs
        /\ ret' = [NoCall EXCEPT !.op = "EnqueueJob", !.id = id,
                                 !.err = r.err, !.pre = RowAt(jobs, id)]
        /\ UNCHANGED <<targets, runners, mysqlTargets, deletedIDs>>
        /\ UNCHANGED <<starterVars, managerVars, gauge, sweepVars, recoverVars, rowVars>>

DeleteJob(id) ==
    LET r == MemoryDeleteJob(jobs, id)
    IN  /\ jobs' = r.jobs
        /\ ret' = [NoCall EXCEPT !.op = "DeleteJob", !.id = id,
                                 !.err = r.err, !.pre = RowAt(jobs, id)]
        /\ UNCHANGED <<targets, runners, mysqlTargets, deletedIDs>>
        /\ UNCHANGED <<starterVars, managerVars, gauge, sweepVars, recoverVars, rowVars>>

CreateRunner(id, targetID, createdAt) ==
    LET r == MemoryCreateRunner(runners, Runner(id, targetID, createdAt))
    IN  /\ runners' = r.runners
        /\ ret' = [NoCall EXCEPT !.op = "CreateRunner", !.id = id,
                                 !.err = r.err, !.pre = RowAt(runners, id)]
        /\ UNCHANGED <<targets, jobs, mysqlTargets, deletedIDs>>
        /\ UNCHANGED <<starterVars, managerVars, gauge, sweepVars, recoverVars, rowVars>>

GetRunner(id) ==
    LET r == MemoryGetRunner(runners, id)
    IN  /\ ret' = [NoCall EXCEPT !.op = "GetRunner", !.id = id,
                                 !.err = r.err, !.rows = r.rows]
        /\ UNCHANGED <<targets, jobs, runners, mysqlTargets, deletedIDs>>
        /\ UNCHANGED <<starterVars, managerVars, gauge, sweepVars, recoverVars, rowVars>>

ListRunnersLogByUntil(until) ==
    LET r == MemoryListRunnersLogByUntil(runners, until)
    IN  /\ ret' = [NoCall EXCEPT !.op = "ListRunnersLogByUntil",
                                 !.at = until, !.err = r.err, !.rows = r.rows]
        /\ UNCHANGED <<targets, jobs, runners, mysqlTargets, deletedIDs>>
        /\ UNCHANGED <<starterVars, managerVars, gauge, sweepVars, recoverVars, rowVars>>

DeleteRunner(id, deletedAt, reason) ==
    LET r == MemoryDeleteRunner(runners, id, deletedAt, reason)
    IN  /\ runners' = r.runners
        /\ deletedIDs' = IF id \in DOMAIN runners THEN deletedIDs \cup {id}
                         ELSE deletedIDs
        /\ ret' = [NoCall EXCEPT !.op = "DeleteRunner", !.id = id,
                                 !.at = deletedAt, !.reason = reason,
                                 !.err = r.err, !.pre = RowAt(runners, id)]
        /\ UNCHANGED <<targets, jobs, mysqlTargets>>
        /\ UNCHANGED <<starterVars, managerVars, gauge, sweepVars, recoverVars, rowVars>>

MySQLCreateTargetCall(id, scope, domain) ==
    LET r == MySQLCreateTarget(mysqlTargets, Target(id, scope, domain))
    IN  /\ mysqlTargets' = r.targets
        /\ ret' = [NoCall EXCEPT !.op = "MySQL.CreateTarget", !.id = id,
                                 !.scope = scope, !.domain = domain,
                                 !.err = r.err, !.pre = RowAt(mysqlTargets, id)]
        /\ UNCHANGED <<targets, jobs, runners, deletedIDs>>
        /\ UNCHANGED <<starterVars, managerVars, gauge, sweepVars, recoverVars, rowVars>>

MySQLGetTargetCall(id) ==
    LET r == MySQLGetTarget(mysqlTargets, id)
    IN  /\ ret' = [NoCall EXCEPT !.op = "MySQL.GetTarget", !.id = id,
                                 !.err = r.err, !.rows = r.rows]
        /\ UNCHANGED <<targets, jobs, runners, mysqlTargets, deletedIDs>>
        /\ UNCHANGED <<starterVars, managerVars, gauge, sweepVars, recoverVars, rowVars>>

MySQLGetTargetByScopeCall(domain, scope) ==
    \E r \in MySQLGetTargetByScope(mysqlTargets, domain, scope) :
        /\ ret' = [NoCall EXCEPT !.op = "MySQL.GetTargetByScope",
                                 !.scope = scope, !.domain = domain,
                                 !.err = r.err, !.rows = r.rows]
        /\ UNCHANGED <<targets, jobs, runners, mysqlTargets, deletedIDs>>
        /\ UNCHANGED <<starterVars, managerVars, gauge, sweepVars, recoverVars, rowVars>>

MySQLDeleteTargetCall(id) ==
    LET r == MySQLDeleteTarget(mysqlTargets, id)
    IN  /\ mysqlTargets' = r.targets
        /\ ret' = [NoCall EXCEPT !.op = "MySQL.DeleteTarget", !.id = id,
                                 !.err = r.err, !.pre = RowAt(mysqlTargets, id)]
        /\ UNCHANGED <<targets, jobs, runners, deletedIDs>>
        /\ UNCHANGED <<starterVars, managerVars, gauge, sweepVars, recoverVars, rowVars>>

\* The runner, job and target rows of the in-memory datastore.
NextStore ==
    \/ \E id \in TargetIDs, sc \in Scopes : CreateTarget(id, sc, "")
    \/ \E id \in TargetIDs : DeleteTarget(id)
    \/ \E id \in StoreJobIDs : EnqueueJob(id, "t1")
    \/ \E id \in StoreJobIDs : DeleteJob(id)
    \/ \E id \in RunnerIDs, at \in Times : CreateRunner(id, "t1", at)
    \/ \E id \in RunnerIDs : GetRunner(id)
    \/ \E until \in 1..(MaxTime + 1) : ListRunnersLogByUntil(until)
    \/ \E id \in RunnerIDs, at \in Times, why \in Reasons :
           DeleteRunner(id, at, why)

SpecStore == Init /\ [][NextStore]_vars

\* The targets of both backends, found by scope and CI-domain.
NextScope ==
    \/ \E id \in TargetIDs, sc \in Scopes, d \in GHEDomains :
           CreateTarget(id, sc, d)
    \/ \E id \in TargetIDs : DeleteTarget(id)
    \/ \E sc \in Scopes, d \in GHEDomains : GetTargetByScope(sc, d)
    \/ \E id \in TargetIDs, sc \in Scopes, d \in GHEDomains :
           MySQLCreateTargetCall(id, sc, d)
    \/ \E id \in TargetIDs : MySQLGetTargetCall(id)
    \/ \E sc \in Scopes, d \in GHEDomains : MySQLGetTargetByScopeCall(d, sc)
    \/ \E id \in TargetIDs : MySQLDeleteTargetCall(id)

SpecScope == Init /\ [][NextScope]_vars

----------------------------------------------------------------------------
(* The updates of a target row and the advisory lock, each call one step:  *)
(* the update methods hold Memory.mu from their first statement to their   *)
(* return.                                                                 *)

TargetStatuses == {"running", "err"}
Descriptions == {"", "boom"}
Tokens == {"tok"}
ResourceTypes == {"large"}
ProviderURLs == {"shoes://provider"}

UpdateTargetStatus(targetID, newStatus, description) ==
    LET r == MemoryUpdateTargetStatus(targets, targetID, newStatus,
                                      description)
    IN  /\ targets' = r.targets
        /\ ret' = [NoCall EXCEPT !.op = "UpdateTargetStatus",
                                 !.id = targetID, !.err = r.err]
        /\ UNCHANGED <<jobs, runners, mysqlTargets, deletedIDs>>
        /\ UNCHANGED <<starterVars, managerVars, gauge, sweepVars>>
        /\ UNCHANGED <<recoverVars, rowVars>>

UpdateToken(targetID, newToken, newExpiredAt) ==
    LET r == MemoryUpdateToken(targets, targetID, newToken, newExpiredAt)
    IN  /\ targets' = r.targets
        /\ ret' = [NoCall EXCEPT !.op = "UpdateToken", !.id = targetID,
                                 !.err = r.err]
        /\ UNCHANGED <<jobs, runners, mysqlTargets, deletedIDs>>
        /\ UNCHANGED <<starterVars, managerVars, gauge, sweepVars>>
        /\ UNCHANGED <<recoverVars, rowVars>>

UpdateTargetParam(targetID, newResourceType, newProviderURL) ==
    LET r == MemoryUpdateTargetParam(targets, targetID, newResourceType,
                                     newProviderURL)
    IN  /\ targets' = r.targets
        /\ ret' = [NoCall EXCEPT !.op = "UpdateTargetParam",
                                 !.id = targetID, !.err = r.err]
        /\ UNCHANGED <<jobs, runners, mysqlTargets, deletedIDs>>
        /\ UNCHANGED <<starterVars, managerVars, gauge, sweepVars>>
        /\ UNCHANGED <<recoverVars, rowVars>>

\* The caller r asks for the advisory lock; lockErr keeps what it got.
GetLock(r) ==
    /\ lockErr' = [lockErr EXCEPT ![r] = MemoryGetLock]
    /\ ret' = [NoCall EXCEPT !.op = "GetLock", !.id = r,
                             !.err = MemoryGetLock]
    /\ UNCHANGED <<targets, jobs, runners, mysqlTargets, deletedIDs>>
    /\ UNCHANGED <<pc, snapshot, worker, CountRunning, CountWaiting, created,
                   nextJob>>
    /\ UNCHANGED <<managerVars, gauge, sweepVars, recoverVars, rowVars>>

IsLocked(r) ==
    /\ ret' = [NoCall EXCEPT !.op = "IsLocked", !.id = r,
                             !.err = MemoryIsLocked.err,
                             !.rows = {MemoryIsLocked.status}]
    /\ UNCHANGED <<targets, jobs, runners, mysqlTargets, deletedIDs>>
    /\ UNCHANGED <<starterVars, managerVars, gauge, sweepVars>>
    /\ UNCHANGED <<recoverVars, rowVars>>

\* Calls on one target row, next to another target, a job and a runner.
NextRow ==
    \/ CreateTarget("t1", "acme", "")
    \/ CreateTarget("t2", "acme/widget", "")
    \/ DeleteTarget("t1")
    \/ EnqueueJob("j1", "t1")
    \/ CreateRunner("r1", "t1", 1)
    \/ \E st \in TargetStatuses, d \in Descriptions :
           UpdateTargetStatus("t1", st, d)
    \/ \E tok \in Tokens, at \in Times : UpdateToken("t1", tok, at)
    \/ \E rt \in ResourceTypes, u \in ProviderURLs :
           UpdateTargetParam("t1", rt, u)
    \/ \E r \in Replicas : GetLock(r)
    \/ \E r \in Replicas : IsLocked(r)

SpecRow == Init /\ [][NextRow]_vars

----------------------------------------------------------------------------
(* The same updates, statement by statement, called by goroutines that     *)
(* run at the same time: the lock of Memory.mu, the read of the row into   *)
(* the local t, and the assignment of t to the map followed by the         *)
(* deferred unlock.  A reader calls GetTarget over and over.               *)

Writers == {"UpdateTargetStatus", "UpdateToken", "UpdateTargetParam"}
Readers == {"GetTarget"}
Callers == Writers \cup Readers

NoFrame == [pc |-> "start", t |-> {}, err |-> Nil]

\* The lock is given to whoever asks, held or not.
CanLockAlways(m) == TRUE

\* m.mu.Lock() returns once no writer and no reader holds the mutex.
CanLock(m) == m.writer = "" /\ m.readers = {}

\* m.mu.RLock() returns once no writer holds the mutex.
CanRLock(m) == m.writer = ""

\* What the method g makes of the row t it has read.
ApplyUpdate(g, t) ==
    LET ts == MapPut(EmptyMap, t.UUID, t)
        r == CASE g = "UpdateTargetStatus" ->
                      MemoryUpdateTargetStatus(ts, t.UUID, "err", "boom")
               [] g = "UpdateToken" ->
                      MemoryUpdateToken(ts, t.UUID, "tok", 1)
               [] g = "UpdateTargetParam" ->
                      MemoryUpdateTargetParam(ts, t.UUID, "large",
                                              "shoes://provider")
    IN  r.targets[t.UUID]

Lock(g) ==
    /\ goroutine[g].pc = "start"
    /\ CanLock(mu)
    /\ mu' = [mu EXCEPT !.writer = g]
    /\ goroutine' = [goroutine EXCEPT ![g].pc = "locked"]
    /\ UNCHANGED <<storeVars, starterVars, managerVars, gauge, sweepVars>>
    /\ UNCHANGED recoverVars

\* t, ok := m.targets[targetID]
Load(g) ==
    /\ goroutine[g].pc = "locked"
    /\ goroutine' = [goroutine EXCEPT ![g].pc = "loaded",
                                      ![g].t = RowAt(targets, "t1")]
    /\ UNCHANGED mu
    /\ UNCHANGED <<storeVars, starterVars, managerVars, gauge, sweepVars>>
    /\ UNCHANGED recoverVars

\* Not found: the error is returned.  Found: the fields are set in t and t
\* is assigned to the map.  Either way the deferred Unlock runs.
StoreAndUnlock(g) ==
    /\ goroutine[g].pc = "loaded"
    /\ IF goroutine[g].t = {}
       THEN /\ goroutine' = [goroutine EXCEPT ![g].pc = "done",
                                              ![g].err = ErrUpdate]
            /\ UNCHANGED targets
       ELSE /\ targets' = MapPut(targets, "t1",
                   ApplyUpdate(g, CHOOSE t \in goroutine[g].t : TRUE))
            /\ goroutine' = [goroutine EXCEPT ![g].pc = "done"]
    /\ mu' = [mu EXCEPT !.writer = ""]
    /\ UNCHANGED <<jobs, runners, mysqlTargets, ret, deletedIDs>>
    /\ UNCHANGED <<starterVars, managerVars, gauge, sweepVars, recoverVars>>

RLock(g) ==
    /\ goroutine[g].pc = "start"
    /\ CanRLock(mu)
    /\ mu' = [mu EXCEPT !.readers = @ \cup {g}]
    /\ goroutine' = [goroutine EXCEPT ![g].pc = "locked"]
    /\ UNCHANGED <<storeVars, starterVars, managerVars, gauge, sweepVars>>
    /\ UNCHANGED recoverVars

\* GetTarget returns the row it finds, and the deferred RUnlock runs.
ReadAndRUnlock(g) ==
    /\ goroutine[g].pc = "locked"
    /\ LET r == MemoryGetTarget(targets, "t1")
       IN  goroutine' = [goroutine EXCEPT ![g].pc = "start",
                                          ![g].t = r.rows,
                                          ![g].err = r.err]
    /\ mu' = [mu EXCEPT !.readers = @ \ {g}]
    /\ UNCHANGED <<storeVars, starterVars, managerVars, gauge, sweepVars>>
    /\ UNCHANGED recoverVars

\* The target is in the datastore or not; no caller has started.
InitAtomic ==
    /\ targets \in {EmptyMap,
                    MapPut(EmptyMap, "t1", Target("t1", "acme", ""))}
    /\ jobs = EmptyMap
    /\ runners = EmptyMap
    /\ mysqlTargets = EmptyMap
    /\ ret = NoCall
    /\ deletedIDs = {}
    /\ InitStarter(Replicas, JobIDs)
    /\ InitManager
    /\ gauge = NoGauge
    /\ InitSweepIdle
    /\ InitRecoverIdle
    /\ mu = Unlocked
    /\ goroutine = [g \in Callers |-> NoFrame]

NextAtomic ==
    \/ \E g \in Writers : Lock(g)
    \/ \E g \in Writers : Load(g)
    \/ \E g \in Writers : StoreAndUnlock(g)
    \/ \E g \in Readers : RLock(g)
    \/ \E g \in Readers : ReadAndRUnlock(g)

SpecAtomic == InitAtomic /\ [][NextAtomic]_vars

----------------------------------------------------------------------------
(* The Starter (section 4.C).  Its loop is not among the repository's      *)
(* files: the tick, the dispatch and the worker below follow the           *)
(* specification; the datastore calls they make and the scrape of the      *)
(* gauges are the code's.  Each replica is a process of its own with its   *)
(* own CountRunning and CountWaiting; all replicas share the datastore.    *)

MaxConnectionsToBackend == 1

Max(a, b) == IF a >= b THEN a ELSE b

\* Step 1 and 2 of a tick: try the advisory lock; holding it, snapshot the
\* pending jobs.  A tick that does not get the lock ends there.
StarterTick(r) ==
    /\ pc[r] = "idle"
    /\ LET err == MemoryGetLock
       IN  /\ lockErr' = [lockErr EXCEPT ![r] = err]
           /\ IF err = Nil
              THEN \E l \in MemoryListJobs(jobs) :
                       /\ snapshot' = [snapshot EXCEPT ![r] = l.rows]
                       /\ pc' = [pc EXCEPT ![r] = "dispatch"]
                       /\ CountWaiting' = [CountWaiting EXCEPT ![r] =
                              Max(Len(l.rows) - CountRunning[r], 0)]
              ELSE UNCHANGED <<snapshot, pc, CountWaiting>>
    /\ UNCHANGED <<worker, CountRunning, created, nextJob>>
    /\ gauge' = NoGauge
    /\ UNCHANGED <<storeVars, managerVars, sweepVars, recoverVars, rowVars>>

\* Whether the tick may start a worker for the job: the number in flight is
\* below the cap, and this replica has no creation active for the job id.
Admit(r, job) ==
    /\ CountRunning[r] < MaxConnectionsToBackend
    /\ worker[r][job.UUID].phase = "none"

\* Step 3: the next job of the snapshot is dispatched or left in the queue.
StarterDispatch(r) ==
    /\ pc[r] = "dispatch"
    /\ snapshot[r] # <<>>
    /\ LET job == Head(snapshot[r])
       IN  IF Admit(r, job)
           THEN /\ worker' = [worker EXCEPT ![r][job.UUID] =
                       [phase |-> "lookup", TargetID |-> job.TargetID]]
                /\ CountRunning' = [CountRunning EXCEPT ![r] = @ + 1]
           ELSE UNCHANGED <<worker, CountRunning>>
    /\ snapshot' = [snapshot EXCEPT ![r] = Tail(@)]
    /\ UNCHANGED <<pc, CountWaiting, lockErr, created, nextJob>>
    /\ gauge' = NoGauge
    /\ UNCHANGED <<storeVars, managerVars, sweepVars, recoverVars, rowVars>>

StarterTickEnd(r) ==
    /\ pc[r] = "dispatch"
    /\ snapshot[r] = <<>>
    /\ pc' = [pc EXCEPT ![r] = "idle"]
    /\ UNCHANGED <<snapshot, worker, CountRunning, CountWaiting, lockErr,
                   created, nextJob>>
    /\ gauge' = NoGauge
    /\ UNCHANGED <<storeVars, managerVars, sweepVars, recoverVars, rowVars>>

\* The worker returns: it is no longer in flight.
Finish(r, j) ==
    /\ worker' = [worker EXCEPT ![r][j] = NoWorker]
    /\ CountRunning' = [CountRunning EXCEPT ![r] = @ - 1]

\* Step 4, first part.  A job whose runner row exists is a duplicate and is
\* deleted (testable property 7); otherwise the owning target is looked up
\* and must be active.
WorkerLookup(r, j) ==
    /\ worker[r][j].phase = "lookup"
    /\ IF MemoryGetRunner(runners, j).err = Nil
       THEN /\ jobs' = MemoryDeleteJob(jobs, j).jobs
            /\ Finish(r, j)
       ELSE LET t == MemoryGetTarget(targets, worker[r][j].TargetID)
            IN  /\ UNCHANGED jobs
                /\ IF t.err = Nil /\ \A row \in t.rows : row.Status = "active"
                   THEN /\ worker' = [worker EXCEPT ![r][j].phase = "provider"]
                        /\ UNCHANGED CountRunning
                   ELSE Finish(r, j)
    /\ UNCHANGED <<pc, snapshot, CountWaiting, lockErr, created, nextJob>>
    /\ UNCHANGED <<targets, runners, mysqlTargets, ret, deletedIDs>>
    /\ gauge' = NoGauge
    /\ UNCHANGED <<managerVars, sweepVars, recoverVars, rowVars>>

\* The provider driver is asked for an instance and the CI service for a
\* registration token.  A transient failure leaves the state as it is; a
\* terminal one marks the target err and deletes the job (section 7).
WorkerProvider(r, j, outcome) ==
    /\ worker[r][j].phase = "provider"
    /\ CASE outcome = "ok" ->
                /\ worker' = [worker EXCEPT ![r][j].phase = "commit"]
                /\ UNCHANGED <<CountRunning, targets, jobs>>
         [] outcome = "transient" ->
                /\ Finish(r, j)
                /\ UNCHANGED <<targets, jobs>>
         [] outcome = "terminal" ->
                /\ targets' = MemoryUpdateTargetStatus(targets,
                                  worker[r][j].TargetID, "err",
                                  "terminal").targets
                /\ jobs' = MemoryDeleteJob(jobs, j).jobs
                /\ Finish(r, j)
    /\ UNCHANGED <<pc, snapshot, CountWaiting, lockErr, created, nextJob>>
    /\ UNCHANGED <<runners, mysqlTargets, ret, deletedIDs>>
    /\ gauge' = NoGauge
    /\ UNCHANGED <<managerVars, sweepVars, recoverVars, rowVars>>

\* The runner row is written, with the id of the job it was created for.
WorkerCommit(r, j) ==
    /\ worker[r][j].phase = "commit"
    /\ runners' = MemoryCreateRunner(runners,
                      Runner(j, worker[r][j].TargetID, 1)).runners
    /\ created' = [created EXCEPT ![r][j] = @ + 1]
    /\ worker' = [worker EXCEPT ![r][j].phase = "cleanup"]
    /\ UNCHANGED <<pc, snapshot, CountRunning, CountWaiting, lockErr, nextJob>>
    /\ UNCHANGED <<targets, jobs, mysqlTargets, ret, deletedIDs>>
    /\ gauge' = NoGauge
    /\ UNCHANGED <<managerVars, sweepVars, recoverVars, rowVars>>

\* The job row is deleted once the runner row is committed.
WorkerCleanup(r, j) ==
    /\ worker[r][j].phase = "cleanup"
    /\ jobs' = MemoryDeleteJob(jobs, j).jobs
    /\ Finish(r, j)
    /\ UNCHANGED <<pc, snapshot, CountWaiting, lockErr, created, nextJob>>
    /\ UNCHANGED <<targets, runners, mysqlTargets, ret, deletedIDs>>
    /\ gauge' = NoGauge
    /\ UNCHANGED <<managerVars, sweepVars, recoverVars, rowVars>>

\* The webhook enqueues a job under a fresh id for the target; limit bounds
\* the number of jobs of a run.
Webhook(limit) ==
    /\ nextJob < limit
    /\ nextJob' = nextJob + 1
    /\ jobs' = MemoryEnqueueJob(jobs, Job(nextJob + 1, "t1")).jobs
    /\ UNCHANGED <<pc, snapshot, worker, CountRunning, CountWaiting, lockErr,
                   created>>
    /\ UNCHANGED <<targets, runners, mysqlTargets, ret, deletedIDs>>
    /\ gauge' = NoGauge
    /\ UNCHANGED <<managerVars, sweepVars, recoverVars, rowVars>>

----------------------------------------------------------------------------
(* package metric: scrapeStarterValues reads the configuration and the    *)
(* process-wide counters and sends one gauge for each.  gauge holds the    *)
(* metrics of a scrape until the next step of a loop: the collector has   *)
(* read them from the channel by then.                                     *)

MaxConcurrencyDeleting == 1

\* The running and the waiting gauge carry each other's counter.
scrapeSwapsQueues(configMax, countRunning, countWaiting, configDeletingMax, countDeleting) ==
    [starter_max_running |-> configMax,
     starter_queue_running |-> countWaiting,
     starter_queue_waiting |-> countRunning,
     runner_max_concurrency_deleting |-> configDeletingMax,
     runner_queue_concurrency_deleting |-> countDeleting]

\* The two runner gauges carry each other's value.
scrapeSwapsDeleting(configMax, countRunning, countWaiting, configDeletingMax, countDeleting) ==
    [starter_max_running |-> configMax,
     starter_queue_running |-> countRunning,
     starter_queue_waiting |-> countWaiting,
     runner_max_concurrency_deleting |-> countDeleting,
     runner_queue_concurrency_deleting |-> configDeletingMax]

scrapeStarterValues(configMax, countRunning, countWaiting, configDeletingMax, countDeleting) ==
    [starter_max_running |-> configMax,
     starter_queue_running |-> countRunning,
     starter_queue_waiting |-> countWaiting,
     runner_max_concurrency_deleting |-> configDeletingMax,
     runner_queue_concurrency_deleting |-> countDeleting]

\* A scrape in the process of replica r.
Scrape(r) ==
    /\ gauge' = [scraped |-> TRUE, replica |-> r] @@
                scrapeStarterValues(MaxConnectionsToBackend, CountRunning[r],
                                    CountWaiting[r], MaxConcurrencyDeleting,
                                    ConcurrencyDeleting)
    /\ UNCHANGED <<storeVars, starterVars, managerVars, sweepVars, recoverVars, rowVars>>

\* The steps of the Starter processes reps on the jobs ids.
StarterSteps(reps, ids) ==
    \/ "t1" \notin DOMAIN targets /\ CreateTarget("t1", "acme", "")
    \/ Webhook(Cardinality(ids))
    \/ \E r \in reps : StarterTick(r)
    \/ \E r \in reps : StarterDispatch(r)
    \/ \E r \in reps : StarterTickEnd(r)
    \/ \E r \in reps, j \in ids : WorkerLookup(r, j)
    \/ \E r \in reps, j \in ids,
          outcome \in {"ok", "transient", "terminal"} :
           WorkerProvider(r, j, outcome)
    \/ \E r \in reps, j \in ids : WorkerCommit(r, j)
    \/ \E r \in reps, j \in ids : WorkerCleanup(r, j)

\* Two Starter replicas on one datastore.
NextStarter == StarterSteps(Replicas, JobIDs)

Spec == Init /\ [][NextStarter]_vars

\* One Starter, more jobs than its cap admits, and the scrape of its gauges.
InitCap ==
    /\ InitStore
    /\ InitStarter(Single, BurstIDs)
    /\ InitManager
    /\ gauge = NoGauge
    /\ InitSweepIdle
    /\ InitRecoverIdle
    /\ InitRowIdle

NextCap ==
    \/ StarterSteps(Single, BurstIDs)
    \/ \E r \in Single : Scrape(r)

SpecCap == InitCap /\ [][NextCap]_vars

----------------------------------------------------------------------------
(* The Runner Manager (section 4.D).  Its loop is not among the            *)
(* repository's files either: the tick and the decommission worker follow  *)
(* the specification, DeleteRunner and the scrape of the gauge are the     *)
(* code's.                                                                 *)

\* A tick: under the advisory lock, the runners are listed for a visit.
ManagerTick ==
    /\ rmPc = "idle"
    /\ IF MemoryGetLock = Nil
       THEN \E q \in Orders(MemoryListRunners(runners).rows) :
                /\ rmSnapshot' = q
                /\ rmPc' = "dispatch"
       ELSE UNCHANGED <<rmSnapshot, rmPc>>
    /\ UNCHANGED <<deleter, ConcurrencyDeleting>>
    /\ gauge' = NoGauge
    /\ UNCHANGED <<storeVars, starterVars, sweepVars, recoverVars, rowVars>>

\* Whether a decommission worker may start for the runner: fewer than the
\* cap are in flight, and none is in flight for this runner.
AdmitDeleting(id) ==
    /\ ConcurrencyDeleting < MaxConcurrencyDeleting
    /\ deleter[id].phase = "none"

\* The next runner of the snapshot is visited.  What the CI service, the
\* provider and the clock say of it decides whether it is to be
\* decommissioned and why; a candidate beyond the cap waits for a later tick.
ManagerVisit(decommission, why) ==
    /\ rmPc = "dispatch"
    /\ rmSnapshot # <<>>
    /\ LET id == Head(rmSnapshot).UUID
       IN  IF decommission /\ AdmitDeleting(id)
           THEN /\ deleter' = [deleter EXCEPT ![id] =
                        [phase |-> "unregister", reason |-> why]]
                /\ ConcurrencyDeleting' = ConcurrencyDeleting + 1
           ELSE UNCHANGED <<deleter, ConcurrencyDeleting>>
    /\ rmSnapshot' = Tail(rmSnapshot)
    /\ UNCHANGED rmPc
    /\ gauge' = NoGauge
    /\ UNCHANGED <<storeVars, starterVars, sweepVars, recoverVars, rowVars>>

ManagerTickEnd ==
    /\ rmPc = "dispatch"
    /\ rmSnapshot = <<>>
    /\ rmPc' = "idle"
    /\ UNCHANGED <<rmSnapshot, deleter, ConcurrencyDeleting>>
    /\ gauge' = NoGauge
    /\ UNCHANGED <<storeVars, starterVars, sweepVars, recoverVars, rowVars>>

FinishDeleting(id) ==
    /\ deleter' = [deleter EXCEPT ![id] = NoDeleter]
    /\ ConcurrencyDeleting' = ConcurrencyDeleting - 1

\* (1) The CI service removes the registration; "already gone" is success.
DeleterUnregister(id) ==
    /\ deleter[id].phase = "unregister"
    /\ deleter' = [deleter EXCEPT ![id].phase = "instance"]
    /\ UNCHANGED <<rmPc, rmSnapshot, ConcurrencyDeleting>>
    /\ gauge' = NoGauge
    /\ UNCHANGED <<storeVars, starterVars, sweepVars, recoverVars, rowVars>>

\* (2) The provider deletes the instance; a failure leaves the row as it is.
DeleterInstance(id, ok) ==
    /\ deleter[id].phase = "instance"
    /\ IF ok
       THEN /\ deleter' = [deleter EXCEPT ![id].phase = "row"]
            /\ UNCHANGED ConcurrencyDeleting
       ELSE FinishDeleting(id)
    /\ UNCHANGED <<rmPc, rmSnapshot>>
    /\ gauge' = NoGauge
    /\ UNCHANGED <<storeVars, starterVars, sweepVars, recoverVars, rowVars>>

\* (3) The runner row is deleted with the reason of the decommission.
DeleterRow(id, deletedAt) ==
    /\ deleter[id].phase = "row"
    /\ runners' = MemoryDeleteRunner(runners, id, deletedAt,
                                     deleter[id].reason).runners
    /\ deletedIDs' = IF id \in DOMAIN runners THEN deletedIDs \cup {id}
                     ELSE deletedIDs
    /\ FinishDeleting(id)
    /\ UNCHANGED <<rmPc, rmSnapshot>>
    /\ gauge' = NoGauge
    /\ UNCHANGED <<targets, jobs, mysqlTargets, ret>>
    /\ UNCHANGED <<starterVars, sweepVars, recoverVars, rowVars>>

NextManager ==
    \/ \E id \in RunnerIDs : CreateRunner(id, "t1", 1)
    \/ ManagerTick
    \/ \E decommission \in BOOLEAN, why \in Reasons :
           ManagerVisit(decommission, why)
    \/ ManagerTickEnd
    \/ \E id \in RunnerIDs : DeleterUnregister(id)
    \/ \E id \in RunnerIDs, ok \in BOOLEAN : DeleterInstance(id, ok)
    \/ \E id \in RunnerIDs : DeleterRow(id, MaxTime)
    \/ \E r \in Replicas : Scrape(r)

SpecManager == Init /\ [][NextManager]_vars

----------------------------------------------------------------------------
(* package datastore: the pending-run sweep of one repository.  Times are  *)
(* in seconds; a time.Duration is a number of seconds.                     *)

oldMinutes == 30
SecondsPerMinute == 60
MaxRuns == 3
RunStatuses == {"queued", "pending", "in_progress", "completed"}
\* How long before the sweep a run was created; a negative age is a run
\* whose creation time is ahead of the sweeping host's clock.
Ages == {-60, 1799, 1800, 2700}
ErrListRuns == "failed to list runs"

\* Go's integer division and remainder truncate toward zero.
Quo(a, b) == IF a >= 0 THEN a \div b ELSE -((-a) \div b)

Rem(a, b) == a - b * Quo(a, b)

\* Duration.Minutes(): the whole minutes plus the rest as a fraction of a
\* minute, here the pair of both.
Minutes(d) ==
    [min |-> Quo(d, SecondsPerMinute), nsec |-> Rem(d, SecondsPerMinute)]

\* m >= float64(n), for m a Minutes() value: min + nsec/60 >= n.
AtLeast(m, n) == m.min * SecondsPerMinute + m.nsec >= n * SecondsPerMinute

\* time.Since(t)
Since(t) == sweepNow - t

\* The loop of getPendingRunByRepo over the listed runs, in their order.
PendingOf(listed) ==
    SelectSeq(listed, LAMBDA r :
        /\ r.Status = "queued" \/ r.Status = "pending"
        /\ AtLeast(Minutes(Since(r.CreatedAt)), oldMinutes))

\* The threshold is compared with > instead of >=.
getPendingRunByRepoOver(listed) ==
    IF listed.err # Nil THEN [err |-> ErrListRuns, pendingRuns |-> <<>>]
    ELSE [err |-> Nil,
          pendingRuns |-> SelectSeq(listed.runs, LAMBDA r :
              /\ r.Status = "queued" \/ r.Status = "pending"
              /\ Since(r.CreatedAt) > oldMinutes * SecondsPerMinute)]

\* listed: what gh.ListWorkflowRunsNewestOneHundred returned.
getPendingRunByRepo(listed) ==
    IF listed.err # Nil THEN [err |-> ErrListRuns, pendingRuns |-> <<>>]
    ELSE [err |-> Nil, pendingRuns |-> PendingOf(listed.runs)]

\* The CI service lists the runs, or the listing fails.
SweepRepo(listErr) ==
    /\ sweep' = [called |-> TRUE] @@
                getPendingRunByRepo([err |-> listErr, runs |-> runs])
    /\ UNCHANGED <<runs, sweepNow>>
    /\ UNCHANGED <<storeVars, starterVars, managerVars, gauge>>
    /\ UNCHANGED <<recoverVars, rowVars>>

Latest == CHOOSE a \in Ages : \A b \in Ages : a >= b

\* The runs of the repository: any list of at most MaxRuns runs, each in
\* any status and of any age.
InitSweep ==
    /\ InitStore
    /\ InitStarter(Replicas, JobIDs)
    /\ InitManager
    /\ gauge = NoGauge
    /\ sweepNow = Latest
    /\ \E n \in 0..MaxRuns :
           \E st \in [1..n -> RunStatuses], age \in [1..n -> Ages] :
               runs = [i \in 1..n |->
                          [ID |-> i, Status |-> st[i],
                           CreatedAt |-> sweepNow - age[i]]]
    /\ sweep = NoSweep
    /\ InitRecoverIdle
    /\ InitRowIdle

NextSweep == \E listErr \in {Nil, "503"} : SweepRepo(listErr)

SpecSweep == InitSweep /\ [][NextSweep]_vars

----------------------------------------------------------------------------
(* package datastore: the scan of the recently active repositories.  The   *)
(* datastore's ListRunnersLogBySince and SearchRepo are not part of these  *)
(* files and follow the specification (4.A, 4.C, 4.E); the calls of the CI *)
(* service succeed or fail as the service pleases.                         *)

Day == 86400
MaxLog == 2
RepoURLs == {"https://github.com/acme/widget",
             "https://github.com/acme/gadget",
             "https://github.com/%zz"}
\* How long before the scan a runner was created.
LogAges == {600, 3600, Day + 60}
ErrRecent == "failed to get targets from datastore"
ErrRecentRepositories == "failed to get recent repositories"
ErrParse == "invalid URL escape"
ErrSearch == "failed to search repository"
ErrInstallation == "failed to get installation ID"
ErrClient == "failed to create client"
\* What a call of the CI service or of the database returns as its error.
Outcomes == {Nil, "unavailable"}

\* url.Parse: the path of the URL, or an error for a malformed escape.
urlParse(raw) ==
    CASE raw = "https://github.com/acme/widget" ->
             [err |-> Nil, Path |-> "/acme/widget"]
      [] raw = "https://github.com/acme/gadget" ->
             [err |-> Nil, Path |-> "/acme/gadget"]
      [] OTHER -> [err |-> ErrParse, Path |-> ""]

\* strings.TrimPrefix(path, "/")
TrimPrefix(path) ==
    CASE path = "/acme/widget" -> "acme/widget"
      [] path = "/acme/gadget" -> "acme/gadget"
      [] OTHER -> path

\* gh.DivideScope: the owner and the repository of a full name.
DivideScope(fullName) ==
    CASE fullName = "acme/widget" -> [owner |-> "acme", repo |-> "widget"]
      [] fullName = "acme/gadget" -> [owner |-> "acme", repo |-> "gadget"]
      [] OTHER -> [owner |-> fullName, repo |-> ""]

LogRow(url, createdAt) == [RepositoryURL |-> url, CreatedAt |-> createdAt]

\* The rows of the audit log created after since, in the order the
\* datastore happens to return them; dbErr is the error of the query.
ListRunnersLogBySince(log, since, dbErr) ==
    IF dbErr # Nil THEN {[err |-> dbErr, rows |-> <<>>]}
    ELSE {[err |-> Nil, rows |-> q] :
              q \in Orders({r \in log : r.CreatedAt > since})}

\* sort.SliceStable by CreatedAt, later first: a stable insertion.
RECURSIVE InsertByCreatedAt(_, _)
InsertByCreatedAt(r, q) ==
    IF q = <<>> THEN <<r>>
    ELSE IF r.CreatedAt > Head(q).CreatedAt THEN <<r>> \o q
    ELSE <<Head(q)>> \o InsertByCreatedAt(r, Tail(q))

RECURSIVE SortByCreatedAt(_)
SortByCreatedAt(q) ==
    IF q = <<>> THEN <<>>
    ELSE InsertByCreatedAt(q[Len(q)],
                           SortByCreatedAt(SubSeq(q, 1, Len(q) - 1)))

\* listed: what ds.ListRunnersLogBySince returned.  The sorted runners are
\* collected into a map keyed by repository URL, and the result is a range
\* over that map: the repositories once each, in no fixed order.
getRecentRepositories(listed) ==
    IF listed.err # Nil THEN {[err |-> ErrRecent, result |-> <<>>]}
    ELSE LET recentRunners == SortByCreatedAt(listed.rows)
             recentActiveRepositories ==
                 {recentRunners[i].RepositoryURL :
                      i \in 1..Len(recentRunners)}
         IN  {[err |-> Nil, result |-> q] :
                  q \in Orders(recentActiveRepositories)}

\* The target that owns the repository: the target of the repository's own
\* scope, else the target of its owner's scope.
SearchRepo(ts, repo) ==
    LET byRepo == MemoryGetTargetByScope(ts, repo)
        byOwner == MemoryGetTargetByScope(ts, DivideScope(repo).owner)
    IN  IF \E r \in byRepo : r.err = Nil THEN byRepo ELSE byOwner

\* On a failure the target is put into the err status.
NewClientInstallationByRepoMarksErr(ts, repo) ==
    {IF s.err # Nil
     THEN [err |-> ErrSearch, target |-> {}, targets |-> ts]
     ELSE IF installErr # Nil
     THEN [err |-> ErrInstallation, target |-> {},
           targets |-> MemoryUpdateTargetStatus(ts,
               (CHOOSE t \in s.rows : TRUE).UUID, "err",
               ErrInstallation).targets]
     ELSE IF clientErr # Nil
     THEN [err |-> ErrClient, target |-> {}, targets |-> ts]
     ELSE [err |-> Nil, target |-> s.rows, targets |-> ts] :
         s \in SearchRepo(ts, repo), installErr \in Outcomes,
         clientErr \in Outcomes}

\* The results the call can have: of the search, of
\* gh.IsInstalledGitHubApp and of gh.NewClientInstallation.  targets is the
\* datastore's target map after the call.
NewClientInstallationByRepo(ts, repo) ==
    {IF s.err # Nil
     THEN [err |-> ErrSearch, target |-> {}, targets |-> ts]
     ELSE IF installErr # Nil
     THEN [err |-> ErrInstallation, target |-> {}, targets |-> ts]
     ELSE IF clientErr # Nil
     THEN [err |-> ErrClient, target |-> {}, targets |-> ts]
     ELSE [err |-> Nil, target |-> s.rows, targets |-> ts] :
         s \in SearchRepo(ts, repo), installErr \in Outcomes,
         clientErr \in Outcomes}

PendingWorkflowRunWithTarget(target, run) ==
    [Target |-> target, WorkflowRun |-> run]

\* The repository is skipped: the loop continues with the next one.
Skip(acc, raw, ts) ==
    [acc EXCEPT !.skipped = @ \cup {raw}, !.targets = ts]

\* A failure of the run listing loses the runs collected before it.
ScanRepoDropsCollected(acc, raw, ci) ==
    LET u == urlParse(raw)
        fullName == TrimPrefix(u.Path)
    IN  IF u.err # Nil THEN {Skip(acc, raw, acc.targets)}
        ELSE UNION {
            IF c.err # Nil THEN {Skip(acc, raw, c.targets)}
            ELSE {LET p == getPendingRunByRepo(
                               [err |-> listErr, runs |-> ci[fullName]])
                  IN  IF p.err # Nil
                      THEN [Skip(acc, raw, c.targets)
                                EXCEPT !.pendingRuns = <<>>]
                      ELSE [acc EXCEPT
                               !.targets = c.targets,
                               !.pendingRuns = @ \o
                                   [i \in 1..Len(p.pendingRuns) |->
                                       PendingWorkflowRunWithTarget(
                                           CHOOSE t \in c.target : TRUE,
                                           p.pendingRuns[i])]] :
                      listErr \in Outcomes} :
            c \in NewClientInstallationByRepo(acc.targets, fullName)}

\* One turn of the loop over the recent repositories: the accumulated
\* result after the repository raw, for each way its calls can end.
ScanRepo(acc, raw, ci) ==
    LET u == urlParse(raw)
        fullName == TrimPrefix(u.Path)
    IN  IF u.err # Nil THEN {Skip(acc, raw, acc.targets)}
        ELSE UNION {
            IF c.err # Nil THEN {Skip(acc, raw, c.targets)}
            ELSE {LET p == getPendingRunByRepo(
                               [err |-> listErr, runs |-> ci[fullName]])
                  IN  IF p.err # Nil THEN Skip(acc, raw, c.targets)
                      ELSE [acc EXCEPT
                               !.targets = c.targets,
                               !.pendingRuns = @ \o
                                   [i \in 1..Len(p.pendingRuns) |->
                                       PendingWorkflowRunWithTarget(
                                           CHOOSE t \in c.target : TRUE,
                                           p.pendingRuns[i])]] :
                      listErr \in Outcomes} :
            c \in NewClientInstallationByRepo(acc.targets, fullName)}

RECURSIVE ScanRepos(_, _, _)
ScanRepos(acc, repos, ci) ==
    IF repos = <<>> THEN {acc}
    ELSE UNION {ScanRepos(a, Tail(repos), ci) :
                    a \in ScanRepo(acc, Head(repos), ci)}

\* recent: what getRecentRepositories returned; ci: the runs the CI service
\* lists for each repository.
GetPendingWorkflowRunByRecentRepositories(ts, recent, ci) ==
    IF recent.err # Nil
    THEN {[err |-> ErrRecentRepositories, pendingRuns |-> <<>>,
           skipped |-> {}, targets |-> ts]}
    ELSE {[a EXCEPT !.err = Nil] :
              a \in ScanRepos([err |-> Nil, pendingRuns |-> <<>>,
                               skipped |-> {}, targets |-> ts],
                              recent.result, ci)}

MaxPasses == 2

\* The Recoverer's call of the scan, at the time sweepNow.
Scan ==
    /\ ~recovered.called
    /\ passes < MaxPasses
    /\ \E dbErr \in Outcomes :
         \E listed \in ListRunnersLogBySince(runnerLog, sweepNow - Day, dbErr) :
           \E recent \in getRecentRepositories(listed) :
             \E res \in GetPendingWorkflowRunByRecentRepositories(
                            targets, recent, ciRuns) :
                /\ targets' = res.targets
                /\ recovered' = [called |-> TRUE, dbErr |-> dbErr,
                                 err |-> res.err,
                                 recent |-> recent.result,
                                 pendingRuns |-> res.pendingRuns,
                                 skipped |-> res.skipped]
    /\ UNCHANGED <<jobs, runners, mysqlTargets, ret, deletedIDs>>
    /\ UNCHANGED <<runnerLog, ciRuns, passes>>
    /\ UNCHANGED <<starterVars, managerVars, gauge, sweepVars, rowVars>>

\* The job the Recoverer enqueues for a pending run of a target.
RescueJob(id, targetID, runID) ==
    [UUID |-> id, TargetID |-> targetID, RunID |-> runID]

\* No job is ever found: every pending run is enqueued again.
HasJobForRunNever(js, targetID, runID) == FALSE

\* The lookup before the insertion: a job of the target for the run.
HasJobForRun(js, targetID, runID) ==
    \E j \in MapValues(js) : j.TargetID = targetID /\ j.RunID = runID

\* The pending runs are enqueued one by one, each under a fresh job id
\* (pass and position), unless its job is already in the datastore.
RECURSIVE EnqueuePending(_, _, _, _)
EnqueuePending(js, pending, pass, i) ==
    IF i > Len(pending) THEN js
    ELSE LET p == pending[i]
         IN  IF HasJobForRun(js, p.Target.UUID, p.WorkflowRun.ID)
             THEN EnqueuePending(js, pending, pass, i + 1)
             ELSE EnqueuePending(
                      MemoryEnqueueJob(js,
                          RescueJob(<<pass, i>>, p.Target.UUID,
                                    p.WorkflowRun.ID)).jobs,
                      pending, pass, i + 1)

\* The pass ends: what the scan returned is re-enqueued.
RecovererEnqueue ==
    /\ recovered.called
    /\ jobs' = IF recovered.err # Nil THEN jobs
               ELSE EnqueuePending(jobs, recovered.pendingRuns, passes, 1)
    /\ recovered' = [recovered EXCEPT !.called = FALSE]
    /\ passes' = passes + 1
    /\ UNCHANGED <<targets, runners, mysqlTargets, ret, deletedIDs>>
    /\ UNCHANGED <<runnerLog, ciRuns>>
    /\ UNCHANGED <<starterVars, managerVars, gauge, sweepVars, rowVars>>

Names == {"acme/widget", "acme/gadget"}

WorkflowRun(id, status, createdAt) ==
    [ID |-> id, Status |-> status, CreatedAt |-> createdAt]

\* What the CI service may list for a repository whose run ids start
\* after base: nothing, one run queued for 45 minutes, or a young pending
\* run and a run queued for exactly 30 minutes.
RunLists(base, now) ==
    {<<>>,
     <<WorkflowRun(base + 1, "queued", now - 2700)>>,
     <<WorkflowRun(base + 1, "pending", now - 1799),
       WorkflowRun(base + 2, "queued", now - 1800)>>}

\* The targets of the datastore: none, the owner's, or the owner's and the
\* repository's own.
TargetMaps ==
    {EmptyMap,
     MapPut(EmptyMap, "t1", Target("t1", "acme", "")),
     MapPut(MapPut(EmptyMap, "t1", Target("t1", "acme", "")),
            "t2", Target("t2", "acme/widget", ""))}

InitRecover ==
    /\ targets \in TargetMaps
    /\ jobs = EmptyMap
    /\ runners = EmptyMap
    /\ mysqlTargets = EmptyMap
    /\ ret = NoCall
    /\ deletedIDs = {}
    /\ InitStarter(Replicas, JobIDs)
    /\ InitManager
    /\ gauge = NoGauge
    /\ sweepNow = Day + Day
    /\ runs = <<>>
    /\ sweep = NoSweep
    /\ runnerLog \in
           {l \in SUBSET {LogRow(u, sweepNow - a) : u \in RepoURLs,
                                                     a \in LogAges} :
                Cardinality(l) <= MaxLog}
    /\ \E w \in RunLists(0, sweepNow), g \in RunLists(10, sweepNow) :
           ciRuns = [n \in Names |->
                        IF n = "acme/widget" THEN w ELSE g]
    /\ recovered = NoScan
    /\ passes = 0
    /\ InitRowIdle

NextRecover ==
    \/ Scan
    \/ RecovererEnqueue

SpecRecover == InitRecover /\ [][NextRecover]_vars

----------------------------------------------------------------------------
(* The admission invariants of the Starter, checked under Spec, and of    *)
(* the Runner Manager, checked under SpecManager.                          *)

RECURSIVE SumOver(_, _)
SumOver(S, f) ==
    IF S = {} THEN 0
    ELSE LET x == CHOOSE y \in S : TRUE IN f[x] + SumOver(S \ {x}, f)

\* The runner rows the replicas have created for job j, all together.
CreatedFor(j) == SumOver(Replicas, [r \in Replicas |-> created[r][j]])

\* The workers of replica r that are in flight.
InFlight(r) == {j \in DOMAIN worker[r] : worker[r][j].phase # "none"}

LockHolders == {r \in Replicas : pc[r] = "dispatch" /\ lockErr[r] = Nil}

C3_RunningAtMostMax ==
    /\ \A r \in DOMAIN CountRunning :
           /\ CountRunning[r] = Cardinality(InFlight(r))
           /\ CountRunning[r] <= MaxConnectionsToBackend
    /\ gauge.scraped =>
           /\ gauge.starter_queue_running = Cardinality(InFlight(gauge.replica))
           /\ gauge.starter_max_running = MaxConnectionsToBackend
           /\ gauge.starter_queue_running <= gauge.starter_max_running

\* A scrape at the cap: as many workers in flight as allowed, while the last
\* snapshot held more jobs than could be dispatched.
C3_Witness_ScrapedAtCap ==
    /\ gauge.scraped
    /\ gauge.starter_queue_running = MaxConnectionsToBackend
    /\ gauge.starter_queue_waiting > 0
    /\ Cardinality(DOMAIN jobs) > MaxConnectionsToBackend

\* The decommission workers that are in flight.
Deleting == {id \in RunnerIDs : deleter[id].phase # "none"}

\* C4: in every state the number of in-flight decommission workers is
\* ConcurrencyDeleting and is at most MaxConcurrencyDeleting, and a scrape
\* exports exactly these two values as the runner deleting gauge and the
\* runner max-deleting gauge.
C4_DeletingAtMostMax ==
    /\ ConcurrencyDeleting = Cardinality(Deleting)
    /\ ConcurrencyDeleting <= MaxConcurrencyDeleting
    /\ gauge.scraped =>
           /\ gauge.runner_queue_concurrency_deleting = Cardinality(Deleting)
           /\ gauge.runner_max_concurrency_deleting = MaxConcurrencyDeleting
           /\ gauge.runner_queue_concurrency_deleting <=
                  gauge.runner_max_concurrency_deleting

\* A scrape at the cap: as many decommission workers in flight as allowed,
\* while the tick has passed another runner that has none.
C4_Witness_ScrapedAtCap ==
    /\ gauge.scraped
    /\ gauge.runner_queue_concurrency_deleting = MaxConcurrencyDeleting
    /\ rmPc = "dispatch"
    /\ rmSnapshot = <<>>
    /\ \E id \in DOMAIN runners : id \notin Deleting

----------------------------------------------------------------------------
(* The datastore contract (section 4.A), checked under SpecStore and       *)
(* SpecScope.                                                              *)

\* A row the datastore holds as deleted: soft-deleted, with its timestamp.
IsDeleted(r) == r.Status = "deleted" \/ r.DeletedAt # 0

\* C5: DeleteRunner(id, deletedAt, reason) is a soft delete: after it has
\* returned for a runner the datastore held, GetRunner(id) still returns the
\* row, ListRunnersLogByUntil returns it for every cutoff after its creation
\* time, and the row carries reason as its status and deletedAt as its
\* deletion timestamp.
C5_SoftDeleteRetainsRow ==
    (ret.op = "DeleteRunner" /\ ret.pre # {}) =>
        LET got == MemoryGetRunner(runners, ret.id)
        IN  /\ got.err = Nil
            /\ \A r \in got.rows :
                   /\ r.Status = ret.reason
                   /\ r.DeletedAt = ret.at
                   /\ \A old \in ret.pre :
                          \A until \in (old.CreatedAt + 1)..(MaxTime + 1) :
                              r \in MemoryListRunnersLogByUntil(runners, until).rows

\* C6: once DeleteRunner has deleted a runner id, no later state holds a
\* live (non-deleted) runner row with that id.
C6_DeletedNeverLiveAgain ==
    \A id \in deletedIDs : \A r \in RowAt(runners, id) : IsDeleted(r)

\* C7: deletion is idempotent.  DeleteRunner, DeleteJob and DeleteTarget
\* return success; a call for an id that is not present changes nothing; a
\* call leaves the id absent, so a second call with the same id, directly
\* after the first, returns success and leaves the maps as the first left
\* them.
C7_DeleteIdempotent ==
    [][ /\ ret'.op \in {"DeleteRunner", "DeleteJob", "DeleteTarget"} =>
               /\ ret'.err = Nil
               /\ (ret'.pre = {} =>
                       /\ targets' = targets
                       /\ jobs' = jobs
                       /\ runners' = runners)
               /\ ((ret.op = ret'.op /\ ret.id = ret'.id) =>
                       /\ ret.err = Nil
                       /\ ret'.pre = {}
                       /\ targets' = targets
                       /\ jobs' = jobs
                       /\ runners' = runners)
        /\ ret'.op = "DeleteRunner" => ret'.id \notin DOMAIN runners'
        /\ ret'.op = "DeleteJob" => ret'.id \notin DOMAIN jobs'
        /\ ret'.op = "DeleteTarget" => ret'.id \notin DOMAIN targets'
      ]_vars

\* A runner was created and deleted, and DeleteRunner has now been called
\* for it again: the call found no row and returned success.
C7_Witness_DeletedTwice ==
    /\ ret.op = "DeleteRunner"
    /\ ret.id \in deletedIDs
    /\ ret.pre = {}
    /\ ret.err = Nil
    /\ jobs # EmptyMap
    /\ targets # EmptyMap

\* A target that counts for the uniqueness of (scope, CI-domain).
NotDeleted(t) == t.Status # "deleted"

\* C8: no two non-deleted targets of the in-memory datastore have the same
\* (scope, CI-domain) pair.
C8_ScopeDomainUnique ==
    \A a, b \in DOMAIN targets :
        (a # b /\ NotDeleted(targets[a]) /\ NotDeleted(targets[b])) =>
            <<targets[a].Scope, targets[a].GHEDomain>> #
                <<targets[b].Scope, targets[b].GHEDomain>>

\* The stored targets that have both the requested scope and CI-domain.
Matching(stored, scope, domain) ==
    {t \in MapValues(stored) : t.Scope = scope /\ t.GHEDomain = domain}

\* C9: a target GetTargetByScope returns has the requested scope and the
\* requested CI-domain, and the call returns ErrNotFound exactly when no
\* stored target has both.
C9_FoundByScopeAndDomain ==
    /\ ret.op = "MySQL.GetTargetByScope" =>
           /\ \A t \in ret.rows :
                  t.Scope = ret.scope /\ t.GHEDomain = ret.domain
           /\ ret.err = ErrNotFound <=>
                  Matching(mysqlTargets, ret.scope, ret.domain) = {}
    /\ ret.op = "GetTargetByScope" =>
           /\ \A t \in ret.rows :
                  t.Scope = ret.scope /\ t.GHEDomain = ret.domain
           /\ ret.err = ErrNotFound <=>
                  Matching(targets, ret.scope, ret.domain) = {}

----------------------------------------------------------------------------
(* The pending-run sweep (section 4.E), checked under SpecSweep.           *)

Range(q) == {q[i] : i \in 1..Len(q)}

\* C10: the pending-run sweep selects a workflow run if and only if its
\* status is queued or pending and it was created at least 30 minutes
\* (1800 seconds) before the sweep: a run exactly 30 minutes old is
\* selected, a younger one is not, one in another status never is.
C10_SelectsQueuedForThirtyMinutes ==
    (sweep.called /\ sweep.err = Nil) =>
        \A i \in 1..Len(runs) :
            runs[i] \in Range(sweep.pendingRuns) <=>
                /\ runs[i].Status \in {"queued", "pending"}
                /\ sweepNow - runs[i].CreatedAt >= 1800

\* A sweep over a queued run of exactly 30 minutes, a pending run one second
\* younger and a completed run of 45 minutes has selected the first alone.
C10_Witness_Boundary ==
    /\ sweep.called
    /\ sweep.err = Nil
    /\ Len(sweep.pendingRuns) = 1
    /\ \E i, j, k \in 1..Len(runs) :
           /\ runs[i].Status = "queued"
           /\ sweepNow - runs[i].CreatedAt = 1800
           /\ runs[i] \in Range(sweep.pendingRuns)
           /\ runs[j].Status = "pending"
           /\ sweepNow - runs[j].CreatedAt = 1799
           /\ runs[k].Status = "completed"
           /\ sweepNow - runs[k].CreatedAt = 2700

----------------------------------------------------------------------------
(* Claims 4: the Recoverer's scan of the recent repositories.              *)

\* The runners of the audit log created in the 24 hours before the scan.
RecentRunners == {r \in runnerLog : r.CreatedAt > sweepNow - Day}

\* When the most recent runner of the repository was created.
NewestOf(u) ==
    LET at == {r.CreatedAt : r \in {x \in RecentRunners :
                                        x.RepositoryURL = u}}
    IN  CHOOSE a \in at : \A b \in at : a >= b

\* C11: getRecentRepositories returns every repository URL of a runner
\* created within the last 24 hours exactly once, a repository whose most
\* recent runner is later before one whose most recent runner is earlier.
C11_RecentNewestFirst ==
    (recovered.called /\ recovered.err = Nil) =>
        LET recent == recovered.recent
        IN  /\ Range(recent) = {r.RepositoryURL : r \in RecentRunners}
            /\ \A i, j \in 1..Len(recent) :
                   i < j => /\ recent[i] # recent[j]
                            /\ NewestOf(recent[i]) >= NewestOf(recent[j])

\* The jobs of the datastore for the run of the target.
JobsForRun(js, targetID, runID) ==
    {id \in DOMAIN js : js[id].TargetID = targetID /\ js[id].RunID = runID}

\* C12: a Recoverer pass leaves exactly one job for every pending run its
\* scan returned, and after any number of passes the datastore holds at
\* most one job for any target and workflow run.
C12_OneJobPerPendingRun ==
    /\ [](\A a, b \in DOMAIN jobs :
              (jobs[a].TargetID = jobs[b].TargetID
                   /\ jobs[a].RunID = jobs[b].RunID) => a = b)
    /\ [][(passes' = passes + 1 /\ recovered.err = Nil) =>
              \A i \in 1..Len(recovered.pendingRuns) :
                  LET p == recovered.pendingRuns[i]
                  IN  Cardinality(JobsForRun(jobs', p.Target.UUID,
                                             p.WorkflowRun.ID)) = 1]_vars

\* Two passes have run, the second found a run pending whose job the first
\* had enqueued, and every job of the datastore is of the first pass.
C12_Witness_SecondPassNoDuplicate ==
    /\ passes = 2
    /\ recovered.err = Nil
    /\ recovered.pendingRuns # <<>>
    /\ jobs # EmptyMap
    /\ \A id \in DOMAIN jobs : id[1] = 0

\* C14: the scan of the recent repositories leaves the targets as they
\* were: none is created, none changes its status or description.
C14_ScanLeavesTargets ==
    [][(~recovered.called /\ recovered'.called) => targets' = targets]_vars

\* A scan has run in which a repository with a target was skipped.
C14_Witness_ScanWithFailure ==
    /\ recovered.called
    /\ recovered.err = Nil
    /\ targets # EmptyMap
    /\ \E u \in recovered.skipped : urlParse(u).err = Nil

\* The runs of the repository the sweep selects.
SelectedOf(u) == Range(PendingOf(ciRuns[TrimPrefix(urlParse(u).Path)]))

\* C19: the scan fails exactly when the listing of the recent runners
\* fails; otherwise its result holds the selected runs of every recent
\* repository that was not skipped, and of no other.
C19_FailureSkipsOneRepository ==
    recovered.called =>
        /\ recovered.err # Nil <=> recovered.dbErr # Nil
        /\ recovered.err = Nil =>
               LET kept == Range(recovered.recent) \ recovered.skipped
                   got == {recovered.pendingRuns[i].WorkflowRun :
                               i \in 1..Len(recovered.pendingRuns)}
               IN  got = UNION {SelectedOf(u) : u \in kept}

\* A scan succeeded that skipped a repository and returned the pending
\* runs of another.
C19_Witness_SkippedAndCollected ==
    /\ recovered.called
    /\ recovered.err = Nil
    /\ recovered.skipped # {}
    /\ recovered.pendingRuns # <<>>

----------------------------------------------------------------------------
(* Claims 5: the order of a tick, the lock and the target updates.         *)

\* C13: within a tick the jobs are listed and dispatched in the order they
\* were enqueued: of the jobs a tick has still to visit, one enqueued
\* earlier comes before one enqueued later.
C13_DispatchedInEnqueueOrder ==
    \A r \in DOMAIN snapshot :
        \A a, b \in 1..Len(snapshot[r]) :
            a < b => snapshot[r][a].UUID < snapshot[r][b].UUID

LockOps == {"GetLock", "IsLocked"}

\* C15: every GetLock succeeds, every IsLocked reports not-locked without
\* an error, also for a caller whose GetLock has succeeded, and neither
\* call changes targets, jobs or runners.
C15_LockIsNoOp ==
    [][ret'.op \in LockOps =>
           /\ ret'.err = Nil
           /\ ret'.op = "GetLock" => lockErr'[ret'.id] = Nil
           /\ ret'.op = "IsLocked" => ret'.rows = {IsNotLocked}
           /\ UNCHANGED <<targets, jobs, runners>>]_vars

\* A caller holds what GetLock gave it, and IsLocked has just reported
\* not-locked to it, with a target, a job and a runner in the datastore.
C15_Witness_NotLockedAfterGetLock ==
    /\ ret.op = "IsLocked"
    /\ lockErr[ret.id] = Nil
    /\ ret.rows = {IsNotLocked}
    /\ targets # EmptyMap /\ jobs # EmptyMap /\ runners # EmptyMap

UpdateOps == {"UpdateTargetStatus", "UpdateToken", "UpdateTargetParam"}

\* C17: an update of a target that is not in the datastore returns an
\* error and leaves targets, jobs and runners as they were.
C17_UpdateOfMissingTarget ==
    [][(ret'.op \in UpdateOps /\ ret'.id \notin DOMAIN targets) =>
           /\ ret'.err # Nil
           /\ UNCHANGED <<targets, jobs, runners>>]_vars

\* The token of a target that is not in the datastore was updated: the
\* call failed and the target is still not there.
C17_Witness_UpdateFailed ==
    /\ ret.op = "UpdateToken"
    /\ ret.err = ErrUpdate
    /\ ret.id \notin DOMAIN targets
    /\ "t2" \in DOMAIN targets

\* The fields an update may change.
FieldsOf(op) ==
    CASE op = "UpdateTargetStatus" -> {"Status", "StatusDescription"}
      [] op = "UpdateToken" -> {"GitHubToken", "TokenExpiredAt"}
      [] op = "UpdateTargetParam" -> {"ResourceType", "ProviderURL"}

\* C18: an update that succeeds changes only its own fields of the
\* addressed target; its other fields, the other targets, the jobs and the
\* runners are unchanged.
C18_UpdateChangesOwnFields ==
    [][(ret'.op \in UpdateOps /\ ret'.err = Nil) =>
           /\ DOMAIN targets' = DOMAIN targets
           /\ \A id \in DOMAIN targets \ {ret'.id} :
                  targets'[id] = targets[id]
           /\ \A f \in DOMAIN targets[ret'.id] \ FieldsOf(ret'.op) :
                  targets'[ret'.id][f] = targets[ret'.id][f]
           /\ UNCHANGED <<jobs, runners>>]_vars

\* The parameters of a target were updated whose status and token had
\* been updated before, next to another target, a job and a runner.
C18_Witness_ParamAfterOthers ==
    /\ ret.op = "UpdateTargetParam"
    /\ ret.err = Nil
    /\ targets[ret.id].Status = "err"
    /\ targets[ret.id].GitHubToken = "tok"
    /\ targets[ret.id].ProviderURL = NullString("shoes://provider", TRUE)
    /\ "t2" \in DOMAIN targets /\ jobs # EmptyMap /\ runners # EmptyMap

\* The row carries the effect of the update g.
Carries(row, g) == \A f \in FieldsOf(g) : row[f] = ApplyUpdate(g, row)[f]

\* The fields of the update g are as they were when the target was created.
Untouched(row, g) ==
    \A f \in FieldsOf(g) : row[f] = Target(row.UUID, row.Scope, row.GHEDomain)[f]

\* C16: whatever the interleaving of the three updates of one target, the
\* row carries the effect of every update that has returned without an
\* error, and a row a concurrent reader has got has, for each update,
\* either all of its fields set or none.
C16_UpdatesAreAtomic ==
    /\ \A g \in Writers :
           (goroutine[g].pc = "done" /\ goroutine[g].err = Nil) =>
               /\ "t1" \in DOMAIN targets
               /\ Carries(targets["t1"], g)
    /\ \A r \in Readers : \A row \in goroutine[r].t :
           \A g \in Writers : Carries(row, g) \/ Untouched(row, g)

\* The three updates have returned while a fourth waited for the mutex or
\* read: the reader has got a row that carries one update and not another.
C16_Witness_AllUpdated ==
    /\ \A g \in Writers : goroutine[g].pc = "done" /\ goroutine[g].err = Nil
    /\ \A g \in Writers : Carries(targets["t1"], g)
    /\ \E r \in Readers : \E row \in goroutine[r].t :
           \E g, h \in Writers : Carries(row, g) /\ ~Carries(row, h)

====
